---- MODULE Spec2Model ----
(***************************************************************************)
(* Model of the Sudachi C FFI layer (SudachiFFI/src/lib.rs): the opaque    *)
(* tokenizer handle, the token marshaling done by sudachi_tokenize and the *)
(* matched release operations.  The heap is modelled explicitly: every     *)
(* Box / CString / boxed slice the library hands out is an entry of one of *)
(* the stores below, with a status that records how often it was released.*)
(***************************************************************************)
EXTENDS Integers, Sequences, FiniteSets, TLC

(* ---------------- bounds of the model ---------------- *)
\* successful sudachi_tokenize calls explored in one behaviour
MaxCalls == 2

(* ---------------- pointers ---------------- *)
\* ptr::null_mut()
NULL == 0
\* the well-aligned non-null address of an empty boxed slice (no allocation)
Dangling == -1

(* ---------------- bytes and strings ---------------- *)
\* a string is a sequence of characters; NUL is the zero byte
NUL == "NUL"

Range(s) == {s[i] : i \in 1..Len(s)}

RECURSIVE Concat(_)
Concat(ss) == IF ss = <<>> THEN <<>> ELSE Head(ss) \o Concat(Tail(ss))

\* CString::new(bytes): fails when the bytes hold an interior zero byte
CStringNew(s) ==
    IF NUL \in Range(s) THEN [ok |-> FALSE, bytes |-> <<>>]
    ELSE [ok |-> TRUE, bytes |-> s]

\* serde_json's string escaping: the zero byte becomes \u0000, quote and
\* backslash are escaped, every other character is copied
JsonEscapeChar(c) ==
    IF c = NUL THEN <<"\\", "u", "0", "0", "0", "0">>
    ELSE IF c = "\"" THEN <<"\\", "\"">>
    ELSE IF c = "\\" THEN <<"\\", "\\">>
    ELSE <<c>>

JsonString(s) ==
    <<"\"">> \o Concat([i \in 1..Len(s) |-> JsonEscapeChar(s[i])]) \o <<"\"">>

\* serde_json::to_string(&[String]): ["t1","t2",...]; it cannot fail
JsonArray(tags) ==
    <<"[">>
    \o Concat([i \in 1..Len(tags) |->
                 (IF i > 1 THEN <<",">> ELSE <<>>) \o JsonString(tags[i])])
    \o <<"]">>

(* ---------------- integer widths ---------------- *)
\* A usize offset v is kept as <<hi, lo>> with v = hi * 2^16 + lo and
\* 0 <= lo < 2^16, so that values beyond 2^31 stay representable.
Two16 == 65536
Two15 == 32768

Off(n) == <<n \div Two16, n % Two16>>

OffLeq(a, b) == a[1] < b[1] \/ (a[1] = b[1] /\ a[2] <= b[2])

\* `x as i32` on a usize: keep the low 32 bits, reinterpret as two's complement
AsI32(off) ==
    LET h == off[1] % Two16
    IN  IF h >= Two15 THEN (h - Two16) * Two16 + off[2]
        ELSE h * Two16 + off[2]

(* ---------------- modes ---------------- *)
\* enum SudachiTokenMode { A = 0, B = 1, C = 2 }
SudachiTokenMode == {0, 1, 2}
\* sudachi::prelude::Mode
Mode == {"A", "B", "C"}

\* variant: the arm for B copied from the arm for A
ModeFrom_b_as_a(mode) ==
    CASE mode = 0 -> "A"
      [] mode = 1 -> "A"
      [] mode = 2 -> "C"

\* impl From<SudachiTokenMode> for Mode
ModeFrom(mode) ==
    CASE mode = 0 -> "A"
      [] mode = 1 -> "B"
      [] mode = 2 -> "C"

(* ---------------- the caller's buffers ---------------- *)
\* an invalid UTF-8 byte
BadByte == "xFF"

\* CStr::from_ptr(p).to_str(): the bytes up to the terminator, if valid UTF-8
ToStr(bytes) ==
    IF BadByte \in Range(bytes) THEN [ok |-> FALSE, str |-> <<>>]
    ELSE [ok |-> TRUE, str |-> bytes]

\* the dict_path buffers a caller passes (index = address, NULL = 0)
PathMem ==
    << <<>>,            \* 1: the empty path
       <<BadByte>>,     \* 2: not UTF-8
       <<"m">>,         \* 3: no such file
       <<"d">>,         \* 4: a directory: opens, cannot be mapped
       <<"c">>,         \* 5: a file that is no dictionary
       <<"A">>,         \* 6: a dictionary
       <<"B">> >>       \* 7: another dictionary

PathArgs == {NULL} \cup (1..Len(PathMem))

\* File::open(path)
FileOpen(path) == path \in {<<"d">>, <<"c">>, <<"A">>, <<"B">>}

\* Mmap::map(&file)
MmapMap(path) == path \in {<<"c">>, <<"A">>, <<"B">>}

\* JapaneseDictionary::from_cfg_storage_with_embedded_chardef(&config, dic_data)
FromCfgStorage(path) ==
    IF path \in {<<"A">>, <<"B">>} THEN [ok |-> TRUE, dict |-> path[1]]
    ELSE [ok |-> FALSE, dict |-> "none"]

\* the text buffers a caller passes (index = address, NULL = 0)
TextMem ==
    << <<>>,            \* 1: the empty text
       <<"a", "b">>,    \* 2: a compound word
       <<BadByte>>,     \* 3: not UTF-8
       <<"n">>,         \* 4: the engine yields a surface with a zero byte
       <<"r">>,         \* 5: the engine yields other fields with a zero byte
       <<"h">>,         \* 6: stands for an input longer than 2^31 bytes
       <<"e">> >>       \* 7: the engine reports an error

TextArgs == {NULL} \cup (1..Len(TextMem))

(* ---------------- the analysis engine (external) ---------------- *)
Morpheme(surface, reading, dform, nform, pos, begin, end) ==
    [surface |-> surface, reading_form |-> reading, dictionary_form |-> dform,
     normalized_form |-> nform, part_of_speech |-> pos, begin |-> begin, end |-> end]

Noun == << <<"N">>, <<"*">> >>

Plain(c, b, e) == Morpheme(c, c, c, c, Noun, b, e)

\* 2^31 - 1, 2^31 and 2^31 + 1 as usize
I32Max == <<Two15 - 1, Two16 - 1>>
I32MaxPlus1 == <<Two15, 0>>
I32MaxPlus2 == <<Two15, 1>>

\* Tokenize::tokenize(&self, text, mode, false) of the engine built from
\* dictionary dict: a sample of the engine's possible outputs.  The engine is
\* a function of the dictionary, the text and the mode only.
EngineTokenize(dict, text_str, mode) ==
    CASE text_str = <<>> ->
           [ok |-> TRUE, morphemes |-> <<>>]
      [] text_str = <<"a", "b">> ->
           IF mode = "A" \/ (mode = "B" /\ dict = "B")
           THEN [ok |-> TRUE, morphemes |->
                   << Plain(<<"a">>, Off(0), Off(1)), Plain(<<"b">>, Off(1), Off(2)) >>]
           ELSE [ok |-> TRUE, morphemes |->
                   << Plain(<<"a", "b">>, Off(0), Off(2)) >>]
      [] text_str = <<"n">> ->
           IF mode = "C"
           THEN [ok |-> TRUE, morphemes |->
                   << Plain(<<"x", NUL>>, Off(0), Off(2)) >>]
           ELSE [ok |-> TRUE, morphemes |->
                   << Plain(<<"x">>, Off(0), Off(1)),
                      Plain(<<NUL>>, Off(1), Off(2)),
                      Plain(<<"y">>, Off(2), Off(3)) >>]
      [] text_str = <<"r">> ->
           [ok |-> TRUE, morphemes |->
              << Morpheme(<<"r">>, <<NUL>>, <<"r">>, <<"r">>, Noun, Off(0), Off(1)),
                 Morpheme(<<"s">>, <<"s">>, <<NUL, "s">>, <<"s", NUL>>,
                          << <<"N", NUL>> >>, Off(1), Off(2)) >>]
      [] text_str = <<"h">> ->
           [ok |-> TRUE, morphemes |->
              << Plain(<<"p">>, IF mode = "A" THEN Off(0) ELSE I32Max, I32MaxPlus1),
                 Plain(<<"q">>, I32MaxPlus1, I32MaxPlus2) >>]
      [] OTHER ->
           [ok |-> FALSE, morphemes |-> <<>>]

(* ---------------- state ---------------- *)
VARIABLES
    handles,    \* Box<SudachiTokenizer>: [st, dictionary, tokenizer] (engine ids)
    engines,    \* Arc<JapaneseDictionary> targets: [strong, dict, mapped]
    openFiles,  \* number of open File values
    maps,       \* number of live Mmap values
    arrays,     \* Box<[*mut SudachiToken]>: [st, slots]
    tokens,     \* Box<SudachiToken>: [st, five string pointers, begin, end]
    strings,    \* CString buffers handed out by into_raw: [st, bytes]
    outCell,    \* the caller's usize that out_count points to
    calls,      \* the caller's record of the results sudachi_tokenize returned
    last,       \* the most recent call: its arguments, return value, releases
    threads     \* the sudachi_tokenize calls in progress, one per calling thread

vars == <<handles, engines, openFiles, maps, arrays, tokens, strings, outCell,
          calls, last, threads>>

\* the caller's usize variable; out_count is NULL or its address
OutArgs == {NULL, 1}

\* an allocation is live, freed (released once) or double (released again)
Release(st) == IF st = "live" THEN "freed" ELSE "double"

\* the heap the token operations work on; log lists the releases in order
Mem == [arrays |-> arrays, tokens |-> tokens, strings |-> strings, log |-> <<>>]

\* what sudachi_init and sudachi_free_tokenizer work on
Sys == [handles |-> handles, engines |-> engines, openFiles |-> openFiles,
        maps |-> maps]

(* ---------------- sudachi_init ---------------- *)
\* drop(file)
DropFile(s) == [s EXCEPT !.openFiles = @ - 1]

\* drop(mapping), also when it is owned by a storage that is dropped
DropMap(s) == [s EXCEPT !.maps = @ - 1]

\* drop of one Arc<JapaneseDictionary>: the last owner drops the engine and
\* with it the storage that owns the mapping
ArcDrop(s, e) ==
    LET n == s.engines[e].strong - 1
    IN  IF n = 0
        THEN DropMap([s EXCEPT !.engines[e].strong = 0, !.engines[e].mapped = FALSE])
        ELSE [s EXCEPT !.engines[e].strong = n]

\* Arc::new(dict), dictionary.clone() for the StatelessTokenizer, Box::into_raw
NewHandle(s, dict) ==
    LET e == Len(s.engines) + 1
    IN  [s EXCEPT !.engines = Append(@, [strong |-> 2, dict |-> dict, mapped |-> TRUE]),
                  !.handles = Append(@, [st |-> "live", dictionary |-> e, tokenizer |-> e])]

\* variant: the storage is forgotten, not dropped, when construction fails
sudachi_init_leaks_mapping(s, dict_path) ==
    IF dict_path = NULL THEN [ret |-> NULL, s |-> s]
    ELSE
    LET path == ToStr(PathMem[dict_path]) IN
    IF ~path.ok THEN [ret |-> NULL, s |-> s]
    ELSE IF ~FileOpen(path.str) THEN [ret |-> NULL, s |-> s]
    ELSE
    LET s1 == [s EXCEPT !.openFiles = @ + 1] IN
    IF ~MmapMap(path.str) THEN [ret |-> NULL, s |-> DropFile(s1)]
    ELSE
    LET s2 == [s1 EXCEPT !.maps = @ + 1]
        dictionary == FromCfgStorage(path.str)
    IN  IF ~dictionary.ok THEN [ret |-> NULL, s |-> DropFile(s2)]
        ELSE [ret |-> Len(s2.handles) + 1,
              s |-> DropFile(NewHandle(s2, dictionary.dict))]

sudachi_init(s, dict_path) ==
    IF dict_path = NULL THEN [ret |-> NULL, s |-> s]
    ELSE
    LET path == ToStr(PathMem[dict_path]) IN
    IF ~path.ok THEN [ret |-> NULL, s |-> s]
    ELSE IF ~FileOpen(path.str) THEN [ret |-> NULL, s |-> s]
    ELSE
    LET s1 == [s EXCEPT !.openFiles = @ + 1] IN
    IF ~MmapMap(path.str) THEN [ret |-> NULL, s |-> DropFile(s1)]
    ELSE
    LET s2 == [s1 EXCEPT !.maps = @ + 1]
        dictionary == FromCfgStorage(path.str)
    IN  IF ~dictionary.ok THEN [ret |-> NULL, s |-> DropFile(DropMap(s2))]
        ELSE [ret |-> Len(s2.handles) + 1,
              s |-> DropFile(NewHandle(s2, dictionary.dict))]

(* ---------------- sudachi_free_tokenizer ---------------- *)
\* variant: the stateless tokenizer's reference is forgotten, not dropped
sudachi_free_tokenizer_drops_one(s, tokenizer) ==
    IF tokenizer # NULL
    THEN LET h == s.handles[tokenizer]
             s1 == [s EXCEPT !.handles[tokenizer].st = Release(@)]
         IN  ArcDrop(s1, h.dictionary)
    ELSE s

sudachi_free_tokenizer(s, tokenizer) ==
    IF tokenizer # NULL
    THEN LET h == s.handles[tokenizer]
             s1 == [s EXCEPT !.handles[tokenizer].st = Release(@)]
         IN  ArcDrop(ArcDrop(s1, h.dictionary), h.tokenizer)
    ELSE s

(* ---------------- sudachi_free_token ---------------- *)
\* let _ = CString::from_raw(p), guarded by !p.is_null()
FreeString(m, p) ==
    IF p # NULL
    THEN [m EXCEPT !.strings[p].st = Release(@), !.log = Append(@, <<"string", p>>)]
    ELSE m

\* variant: the pos string is never reclaimed
sudachi_free_token_leaks_pos(m, token) ==
    IF token = NULL THEN m
    ELSE
    LET t == m.tokens[token]
        m1 == FreeString(m, t.surface)
        m2 == FreeString(m1, t.reading)
        m3 == FreeString(m2, t.dictionary_form)
        m4 == FreeString(m3, t.normalized_form)
    IN  [m4 EXCEPT !.tokens[token].st = Release(@), !.log = Append(@, <<"token", token>>)]

\* the Box<SudachiToken> taken at the top is dropped at the end of the block
sudachi_free_token(m, token) ==
    IF token = NULL THEN m
    ELSE
    LET t == m.tokens[token]
        m1 == FreeString(m, t.surface)
        m2 == FreeString(m1, t.reading)
        m3 == FreeString(m2, t.dictionary_form)
        m4 == FreeString(m3, t.normalized_form)
        m5 == FreeString(m4, t.pos)
    IN  [m5 EXCEPT !.tokens[token].st = Release(@), !.log = Append(@, <<"token", token>>)]

(* ---------------- sudachi_free_tokens ---------------- *)
\* the slice std::slice::from_raw_parts_mut(tokens, count) reads
Slice(m, tokens_ptr, count) ==
    IF tokens_ptr = Dangling THEN <<>> ELSE SubSeq(m.arrays[tokens_ptr].slots, 1, count)

RECURSIVE FreeEach(_, _)
FreeEach(m, slice) ==
    IF slice = <<>> THEN m
    ELSE FreeEach(IF Head(slice) # NULL THEN sudachi_free_token(m, Head(slice)) ELSE m,
                  Tail(slice))

\* drop of Box<[*mut SudachiToken]>: a slice of length 0 owns no allocation
DropSlice(m, tokens_ptr, count) ==
    IF count = 0 THEN m
    ELSE [m EXCEPT !.arrays[tokens_ptr].st = Release(@),
                   !.log = Append(@, <<"array", tokens_ptr>>)]

\* variant: the backing storage is released before the elements are read
sudachi_free_tokens_array_first(m, tokens_ptr, count) ==
    IF tokens_ptr = NULL THEN m
    ELSE FreeEach(DropSlice(m, tokens_ptr, count), Slice(m, tokens_ptr, count))

\* variant: no null check, the null slice reaches the allocator
sudachi_free_tokens_unguarded(m, tokens_ptr, count) ==
    IF tokens_ptr = NULL THEN [m EXCEPT !.log = Append(@, <<"array", NULL>>)]
    ELSE DropSlice(FreeEach(m, Slice(m, tokens_ptr, count)), tokens_ptr, count)

sudachi_free_tokens(m, tokens_ptr, count) ==
    IF tokens_ptr = NULL THEN m
    ELSE DropSlice(FreeEach(m, Slice(m, tokens_ptr, count)), tokens_ptr, count)

(* ---------------- sudachi_tokenize ---------------- *)
\* variant: a tokenizer that keeps state, here the dictionary it switches to
StatelessTokenize_keeps_state(engs, e, text_str, mode) ==
    LET r == EngineTokenize(engs[e].dict, text_str, mode)
    IN  [ok |-> r.ok, morphemes |-> r.morphemes,
         engines |-> [engs EXCEPT ![e].dict = IF @ = "A" THEN "B" ELSE "A"]]

\* tokenizer.tokenizer.tokenize(text_str, mode, false): takes &self, so the
\* engine behind the handle is read and handed back as it was
StatelessTokenize(engs, e, text_str, mode) ==
    LET r == EngineTokenize(engs[e].dict, text_str, mode)
    IN  [ok |-> r.ok, morphemes |-> r.morphemes, engines |-> engs]

\* .map(|s| s.into_raw()).unwrap_or(ptr::null_mut()) on a CString::new result
IntoRaw(m, c) ==
    IF c.ok
    THEN [m |-> [m EXCEPT !.strings = Append(@, [st |-> "live", bytes |-> c.bytes])],
          ptr |-> Len(m.strings) + 1]
    ELSE [m |-> m, ptr |-> NULL]

\* variant: the part-of-speech string is made before the surface is tried
Convert_pos_first(m, morpheme) ==
    LET pos_json == IntoRaw(m, CStringNew(JsonArray(morpheme.part_of_speech)))
        c == CStringNew(morpheme.surface)
    IN
    IF ~c.ok THEN [some |-> FALSE, m |-> pos_json.m, ptr |-> NULL]
    ELSE
    LET surface == IntoRaw(pos_json.m, c)
        reading == IntoRaw(surface.m, CStringNew(morpheme.reading_form))
        dict_form == IntoRaw(reading.m, CStringNew(morpheme.dictionary_form))
        normalized == IntoRaw(dict_form.m, CStringNew(morpheme.normalized_form))
        token == [st |-> "live",
                  surface |-> surface.ptr,
                  reading |-> reading.ptr,
                  dictionary_form |-> dict_form.ptr,
                  normalized_form |-> normalized.ptr,
                  pos |-> pos_json.ptr,
                  begin |-> AsI32(morpheme.begin),
                  end |-> AsI32(morpheme.end)]
    IN  [some |-> TRUE,
         m |-> [normalized.m EXCEPT !.tokens = Append(@, token)],
         ptr |-> Len(normalized.m.tokens) + 1]

\* variant: any field that does not convert makes the closure return None
Convert_drops_on_any_failure(m, morpheme) ==
    LET c == CStringNew(morpheme.surface)
        fields == <<morpheme.surface, morpheme.reading_form, morpheme.dictionary_form,
                    morpheme.normalized_form, JsonArray(morpheme.part_of_speech)>>
    IN
    IF \E i \in 1..5 : ~CStringNew(fields[i]).ok
    THEN [some |-> FALSE, m |-> m, ptr |-> NULL]
    ELSE
    LET surface == IntoRaw(m, c)
        reading == IntoRaw(surface.m, CStringNew(morpheme.reading_form))
        dict_form == IntoRaw(reading.m, CStringNew(morpheme.dictionary_form))
        normalized == IntoRaw(dict_form.m, CStringNew(morpheme.normalized_form))
        pos_json == IntoRaw(normalized.m, CStringNew(JsonArray(morpheme.part_of_speech)))
        token == [st |-> "live",
                  surface |-> surface.ptr,
                  reading |-> reading.ptr,
                  dictionary_form |-> dict_form.ptr,
                  normalized_form |-> normalized.ptr,
                  pos |-> pos_json.ptr,
                  begin |-> AsI32(morpheme.begin),
                  end |-> AsI32(morpheme.end)]
    IN  [some |-> TRUE,
         m |-> [pos_json.m EXCEPT !.tokens = Append(@, token)],
         ptr |-> Len(pos_json.m.tokens) + 1]

\* the closure given to filter_map: None when the surface does not convert
Convert(m, morpheme) ==
    LET c == CStringNew(morpheme.surface) IN
    IF ~c.ok THEN [some |-> FALSE, m |-> m, ptr |-> NULL]
    ELSE
    LET surface == IntoRaw(m, c)
        reading == IntoRaw(surface.m, CStringNew(morpheme.reading_form))
        dict_form == IntoRaw(reading.m, CStringNew(morpheme.dictionary_form))
        normalized == IntoRaw(dict_form.m, CStringNew(morpheme.normalized_form))
        pos_json == IntoRaw(normalized.m, CStringNew(JsonArray(morpheme.part_of_speech)))
        token == [st |-> "live",
                  surface |-> surface.ptr,
                  reading |-> reading.ptr,
                  dictionary_form |-> dict_form.ptr,
                  normalized_form |-> normalized.ptr,
                  pos |-> pos_json.ptr,
                  begin |-> AsI32(morpheme.begin),
                  end |-> AsI32(morpheme.end)]
    IN  [some |-> TRUE,
         m |-> [pos_json.m EXCEPT !.tokens = Append(@, token)],
         ptr |-> Len(pos_json.m.tokens) + 1]

\* variant: a morpheme that does not convert leaves a null element behind
RECURSIVE FilterMap_keeps_null(_, _, _)
FilterMap_keeps_null(m, morphemes, acc) ==
    IF morphemes = <<>> THEN [m |-> m, tokens |-> acc]
    ELSE LET r == Convert(m, Head(morphemes))
         IN  FilterMap_keeps_null(r.m, Tail(morphemes), Append(acc, r.ptr))

\* morphemes.iter().filter_map(..).collect(): acc is the Vec built so far
RECURSIVE FilterMap(_, _, _)
FilterMap(m, morphemes, acc) ==
    IF morphemes = <<>> THEN [m |-> m, tokens |-> acc]
    ELSE LET r == Convert(m, Head(morphemes))
         IN  FilterMap(r.m, Tail(morphemes),
                       IF r.some THEN Append(acc, r.ptr) ELSE acc)

\* variant: an empty Vec is returned as the null pointer
IntoBoxedSlice_null_when_empty(m, toks) ==
    IF toks = <<>> THEN [m |-> m, ptr |-> NULL]
    ELSE [m |-> [m EXCEPT !.arrays = Append(@, [st |-> "live", slots |-> toks])],
          ptr |-> Len(m.arrays) + 1]

\* tokens.into_boxed_slice(), as_mut_ptr(), Box::leak: an empty Vec owns no
\* allocation and yields the dangling, non-null pointer
IntoBoxedSlice(m, toks) ==
    IF toks = <<>> THEN [m |-> m, ptr |-> Dangling]
    ELSE [m |-> [m EXCEPT !.arrays = Append(@, [st |-> "live", slots |-> toks])],
          ptr |-> Len(m.arrays) + 1]

\* variant: the count is zeroed before the other pointers are checked
RejectNull_zeroes_count(m, s, cell, out_count) ==
    [ret |-> NULL, m |-> m, engines |-> s.engines,
     cell |-> IF out_count # NULL THEN 0 ELSE cell, imode |-> "-"]

\* return ptr::null_mut() of the null check: nothing was touched
RejectNull(m, s, cell, out_count) ==
    [ret |-> NULL, m |-> m, engines |-> s.engines, cell |-> cell, imode |-> "-"]

\* the result: the returned pointer, the heap, the engines, the caller's
\* usize after the call and the mode the engine was called with
sudachi_tokenize(m, s, cell, tokenizer, text, mode, out_count) ==
    IF tokenizer = NULL \/ text = NULL \/ out_count = NULL
    THEN RejectNull(m, s, cell, out_count)
    ELSE
    LET text_str == ToStr(TextMem[text]) IN
    IF ~text_str.ok
    THEN [ret |-> NULL, m |-> m, engines |-> s.engines, cell |-> cell, imode |-> "-"]
    ELSE
    LET imode == ModeFrom(mode)
        r == StatelessTokenize(s.engines, s.handles[tokenizer].tokenizer,
                               text_str.str, imode)
    IN  IF ~r.ok
        THEN [ret |-> NULL, m |-> m, engines |-> r.engines, cell |-> cell,
              imode |-> imode]
        ELSE LET f == FilterMap(m, r.morphemes, <<>>)
                 b == IntoBoxedSlice(f.m, f.tokens)
             IN  [ret |-> b.ptr, m |-> b.m, engines |-> r.engines,
                  cell |-> Len(f.tokens), imode |-> imode]

(* ---------------- what the caller reads ---------------- *)
\* a C string read back: the bytes before the first zero byte
RECURSIVE CStrRead(_)
CStrRead(bytes) ==
    IF bytes = <<>> \/ Head(bytes) = NUL THEN <<>>
    ELSE <<Head(bytes)>> \o CStrRead(Tail(bytes))

FieldView(strs, p) ==
    IF p = NULL THEN [absent |-> TRUE, text |-> <<>>]
    ELSE [absent |-> FALSE, text |-> CStrRead(strs[p].bytes)]

\* a null element shows as a record without fields
RecordView(toks, strs, t) ==
    IF t = NULL
    THEN [surface |-> FieldView(strs, NULL), reading |-> FieldView(strs, NULL),
          dictionary_form |-> FieldView(strs, NULL),
          normalized_form |-> FieldView(strs, NULL),
          pos |-> FieldView(strs, NULL), begin |-> 0, end |-> 0]
    ELSE
    [surface |-> FieldView(strs, toks[t].surface),
     reading |-> FieldView(strs, toks[t].reading),
     dictionary_form |-> FieldView(strs, toks[t].dictionary_form),
     normalized_form |-> FieldView(strs, toks[t].normalized_form),
     pos |-> FieldView(strs, toks[t].pos),
     begin |-> toks[t].begin,
     end |-> toks[t].end]

\* the records behind the element pointers recs, as the caller reads them
ResultView(toks, strs, recs) ==
    [i \in 1..Len(recs) |-> RecordView(toks, strs, recs[i])]

(* ---------------- the caller ---------------- *)
\* The caller follows the contract of the interface: it obtains its handle
\* once, passes only a live handle (or NULL), releases each returned array once
\* with the count that call reported, and releases the handle once.  It may
\* take the first record out of an array with sudachi_free_token, storing NULL
\* in its slot.

NoCall == [op |-> "none", arg |-> NULL, text |-> NULL, mode |-> 0, out |-> NULL,
           count |-> 0, ret |-> NULL, imode |-> "-", log |-> <<>>]

\* a thread that has not called sudachi_tokenize
Idle == [pc |-> "idle", h |-> NULL, text |-> NULL, mode |-> 0, imode |-> "-",
         str |-> <<>>, morphemes |-> <<>>, acc |-> <<>>, cell |-> 0, ret |-> NULL,
         seen |-> <<>>]

LiveHandles == {h \in 1..Len(handles) : handles[h].st = "live"}

\* sudachi_tokenize calls with valid arguments, <<handle given, text, mode,
\* out_count>>: texts in the modes that tell the engine's outputs apart
ValidRequests ==
    { <<TRUE, 1, 1, 1>>,
      <<TRUE, 2, 1, 1>>, <<TRUE, 2, 2, 1>>,
      <<TRUE, 4, 0, 1>>, <<TRUE, 4, 2, 1>>,
      <<TRUE, 5, 1, 1>>,
      <<TRUE, 6, 1, 1>> }

\* sudachi_tokenize calls that fail: each argument null in turn, a text that
\* does not decode, a text the engine rejects
FailingRequests ==
    { <<FALSE, 2, 1, 1>>, <<TRUE, NULL, 0, 1>>, <<TRUE, 2, 2, NULL>>,
      <<TRUE, 3, 1, 1>>, <<TRUE, 7, 0, 1>> }

\* the valid calls made next to the failing ones
SetupRequests ==
    { <<TRUE, 1, 1, 1>>, <<TRUE, 2, 0, 1>>, <<TRUE, 4, 0, 1>>, <<TRUE, 4, 2, 1>>,
      <<TRUE, 5, 1, 1>> }

Init ==
    /\ handles = <<>>
    /\ engines = <<>>
    /\ openFiles = 0
    /\ maps = 0
    /\ arrays = <<>>
    /\ tokens = <<>>
    /\ strings = <<>>
    /\ outCell = 0
    /\ calls = <<>>
    /\ last = NoCall
    /\ threads = [t \in 1..MaxCalls |-> Idle]

CallInit(dict_path) ==
    LET r == sudachi_init(Sys, dict_path) IN
    /\ r.ret # NULL => handles = <<>>
    /\ handles' = r.s.handles
    /\ engines' = r.s.engines
    /\ openFiles' = r.s.openFiles
    /\ maps' = r.s.maps
    /\ last' = [NoCall EXCEPT !.op = "init", !.arg = dict_path, !.ret = r.ret]
    /\ UNCHANGED <<threads, arrays, tokens, strings, outCell, calls>>

CallTokenize(tokenizer, text, mode, out_count) ==
    LET r == sudachi_tokenize(Mem, Sys, outCell, tokenizer, text, mode, out_count)
        Released == {i \in 1..Len(calls) : calls[i].released}
    IN
    /\ r.ret # NULL => Len(calls) < MaxCalls
    /\ arrays' = r.m.arrays
    /\ tokens' = r.m.tokens
    /\ strings' = r.m.strings
    /\ engines' = r.engines
    /\ outCell' = r.cell
    /\ calls' = IF r.ret = NULL THEN calls
                ELSE Append(calls,
                       [ptr |-> r.ret, count |-> r.cell, h |-> tokenizer,
                        text |-> text, mode |-> mode, imode |-> r.imode,
                        records |-> Slice(r.m, r.ret, r.cell),
                        after |-> Released, released |-> FALSE])
    /\ last' = [NoCall EXCEPT !.op = "tokenize", !.arg = tokenizer, !.text = text,
                              !.mode = mode, !.out = out_count, !.ret = r.ret,
                              !.imode = r.imode]
    /\ UNCHANGED <<threads, handles, openFiles, maps>>

\* sudachi_free_token(array[0]); array[0] = NULL;
CallFreeToken(a) ==
    /\ arrays[a].st = "live"
    /\ arrays[a].slots[1] # NULL
    /\ LET token == arrays[a].slots[1]
           m == sudachi_free_token(Mem, token)
       IN  /\ arrays' = [m.arrays EXCEPT ![a].slots[1] = NULL]
           /\ tokens' = m.tokens
           /\ strings' = m.strings
           /\ last' = [NoCall EXCEPT !.op = "free_token", !.arg = token, !.log = m.log]
    /\ UNCHANGED <<threads, handles, engines, openFiles, maps, outCell, calls>>

\* sudachi_free_token(NULL)
CallFreeTokenNull ==
    LET m == sudachi_free_token(Mem, NULL) IN
    /\ arrays' = m.arrays
    /\ tokens' = m.tokens
    /\ strings' = m.strings
    /\ last' = [NoCall EXCEPT !.op = "free_token", !.arg = NULL, !.log = m.log]
    /\ UNCHANGED <<threads, handles, engines, openFiles, maps, outCell, calls>>

\* sudachi_free_tokens(result, count) for the result of call c
CallFreeTokens(c) ==
    /\ ~calls[c].released
    /\ LET m == sudachi_free_tokens(Mem, calls[c].ptr, calls[c].count) IN
       /\ arrays' = m.arrays
       /\ tokens' = m.tokens
       /\ strings' = m.strings
       /\ last' = [NoCall EXCEPT !.op = "free_tokens", !.arg = calls[c].ptr,
                                 !.count = calls[c].count, !.log = m.log]
    /\ calls' = [calls EXCEPT ![c].released = TRUE]
    /\ UNCHANGED <<threads, handles, engines, openFiles, maps, outCell>>

\* sudachi_free_tokens(NULL, count)
CallFreeTokensNull(count) ==
    LET m == sudachi_free_tokens(Mem, NULL, count) IN
    /\ arrays' = m.arrays
    /\ tokens' = m.tokens
    /\ strings' = m.strings
    /\ last' = [NoCall EXCEPT !.op = "free_tokens", !.arg = NULL, !.count = count,
                              !.log = m.log]
    /\ UNCHANGED <<threads, handles, engines, openFiles, maps, outCell, calls>>

\* variant: releasing the handle also releases the arrays it has returned
CallFreeTokenizer_drops_results(tokenizer) ==
    LET s == sudachi_free_tokenizer(Sys, tokenizer) IN
    /\ handles' = s.handles
    /\ engines' = s.engines
    /\ openFiles' = s.openFiles
    /\ maps' = s.maps
    /\ arrays' = [a \in 1..Len(arrays) |-> [arrays[a] EXCEPT !.st = Release(@)]]
    /\ last' = [NoCall EXCEPT !.op = "free_tokenizer", !.arg = tokenizer]
    /\ UNCHANGED <<threads, tokens, strings, outCell, calls>>

CallFreeTokenizer(tokenizer) ==
    LET s == sudachi_free_tokenizer(Sys, tokenizer) IN
    /\ handles' = s.handles
    /\ engines' = s.engines
    /\ openFiles' = s.openFiles
    /\ maps' = s.maps
    /\ last' = [NoCall EXCEPT !.op = "free_tokenizer", !.arg = tokenizer]
    /\ UNCHANGED <<threads, arrays, tokens, strings, outCell, calls>>

\* the calls of a caller that passes valid arguments
Next ==
    \/ \E dict_path \in {p \in 1..Len(PathMem) : FromCfgStorage(PathMem[p]).ok} :
          CallInit(dict_path)
    \/ \E req \in ValidRequests : \E tokenizer \in LiveHandles :
          CallTokenize(tokenizer, req[2], req[3], req[4])
    \/ \E a \in 1..Len(arrays) : CallFreeToken(a)
    \/ \E c \in 1..Len(calls) : CallFreeTokens(c)
    \/ \E tokenizer \in LiveHandles : CallFreeTokenizer(tokenizer)

Spec == Init /\ [][Next]_vars

\* the calls of a caller that also passes null pointers, paths that cannot be
\* loaded and texts that cannot be tokenized
NextErr ==
    \/ \E dict_path \in PathArgs : CallInit(dict_path)
    \/ \E req \in FailingRequests \cup SetupRequests :
          \E tokenizer \in (IF req[1] THEN LiveHandles ELSE {NULL}) :
             CallTokenize(tokenizer, req[2], req[3], req[4])
    \/ CallFreeTokenNull
    \/ \E c \in 1..Len(calls) : CallFreeTokens(c)
    \/ \E count \in {0, 2} : CallFreeTokensNull(count)
    \/ \E tokenizer \in {NULL} \cup LiveHandles : CallFreeTokenizer(tokenizer)

SpecErr == Init /\ [][NextErr]_vars

(* ---------------- sudachi_tokenize on several threads ---------------- *)
\* Each thread runs one sudachi_tokenize call against the live handle, with
\* an out_count of its own.  The call is cut where it touches what the
\* threads share: the engine behind the handle (read, and its owner count
\* while the morpheme list is alive) and the allocator.

\* the calls the threads make
ConcRequests == { <<TRUE, 4, 0, 1>>, <<TRUE, 4, 2, 1>>, <<TRUE, 5, 1, 1>> }

\* dictionary.clone(): one more owner of the engine
ArcClone(engs, e) == [engs EXCEPT ![e].strong = @ + 1]

\* variant: the mode is read from a cell every call writes
CallMode_shared(t) == last.imode

\* let mode: Mode = mode.into(), a local of the call
CallMode(t) == threads[t].imode

\* the null check, &*tokenizer, CStr::to_str and mode.into()
TBegin(t, tokenizer, text, mode) ==
    /\ threads[t].pc = "idle"
    /\ LET text_str == ToStr(TextMem[text])
           e == handles[tokenizer].tokenizer
       IN  /\ threads' = [threads EXCEPT ![t] =
                 IF ~text_str.ok THEN [Idle EXCEPT !.pc = "done"]
                 ELSE [Idle EXCEPT !.pc = "decoded", !.h = tokenizer, !.text = text,
                                   !.mode = mode, !.imode = ModeFrom(mode),
                                   !.str = text_str.str,
                                   !.seen = <<handles[tokenizer], engines[e].dict,
                                              engines[e].mapped>>]]
           /\ last' = [NoCall EXCEPT !.op = "tokenize", !.arg = tokenizer,
                                     !.text = text, !.mode = mode, !.out = t,
                                     !.imode = ModeFrom(mode)]
    /\ UNCHANGED <<handles, engines, openFiles, maps, arrays, tokens, strings,
                   outCell, calls>>

\* tokenizer.tokenizer.tokenize(text_str, mode, false): the morpheme
\* list it returns owns a clone of the engine reference
TEngine(t) ==
    /\ threads[t].pc = "decoded"
    /\ LET e == handles[threads[t].h].tokenizer
           r == StatelessTokenize(engines, e, threads[t].str, CallMode(t))
       IN  IF ~r.ok
           THEN /\ threads' = [threads EXCEPT ![t].pc = "done", ![t].ret = NULL]
                /\ engines' = r.engines
           ELSE /\ threads' = [threads EXCEPT ![t].pc = "convert",
                                              ![t].morphemes = r.morphemes]
                /\ engines' = ArcClone(r.engines, e)
    /\ UNCHANGED <<handles, openFiles, maps, arrays, tokens, strings, outCell,
                   calls, last>>

\* one turn of the filter_map closure: the next morpheme is converted
TConvert(t) ==
    /\ threads[t].pc = "convert"
    /\ threads[t].morphemes # <<>>
    /\ LET r == Convert(Mem, Head(threads[t].morphemes)) IN
       /\ tokens' = r.m.tokens
       /\ strings' = r.m.strings
       /\ threads' = [threads EXCEPT
                        ![t].morphemes = Tail(@),
                        ![t].acc = IF r.some THEN Append(@, r.ptr) ELSE @]
    /\ UNCHANGED <<handles, engines, openFiles, maps, arrays, outCell, calls, last>>

\* *out_count = tokens.len(), into_boxed_slice, and the morpheme list dropped
\* on return
TReturn(t) ==
    /\ threads[t].pc = "convert"
    /\ threads[t].morphemes = <<>>
    /\ LET b == IntoBoxedSlice(Mem, threads[t].acc)
           e == handles[threads[t].h].tokenizer
           count == Len(threads[t].acc)
       IN  /\ arrays' = b.m.arrays
           /\ engines' = ArcDrop(Sys, e).engines
           /\ threads' = [threads EXCEPT ![t].pc = "done", ![t].cell = count,
                                         ![t].ret = b.ptr]
           /\ calls' = Append(calls,
                          [ptr |-> b.ptr, count |-> count, h |-> threads[t].h,
                           text |-> threads[t].text, mode |-> threads[t].mode,
                           imode |-> threads[t].imode,
                           records |-> Slice(b.m, b.ptr, count),
                           after |-> {}, released |-> FALSE])
    /\ UNCHANGED <<handles, openFiles, maps, tokens, strings, outCell, last>>

\* the threads call sudachi_tokenize on one live handle; nobody releases it
NextConc ==
    \/ \E dict_path \in {p \in 1..Len(PathMem) : FromCfgStorage(PathMem[p]).ok} :
          CallInit(dict_path)
    \/ \E t \in 1..MaxCalls : \E req \in ConcRequests : \E tokenizer \in LiveHandles :
          TBegin(t, tokenizer, req[2], req[3])
    \/ \E t \in 1..MaxCalls : TEngine(t)
    \/ \E t \in 1..MaxCalls : TConvert(t)
    \/ \E t \in 1..MaxCalls : TReturn(t)

SpecConc == Init /\ [][NextConc]_vars

(* ======================= properties ======================= *)

\* the caller has passed every returned array to sudachi_free_tokens and
\* every handle to sudachi_free_tokenizer
AllReleasedByCaller ==
    /\ \A c \in 1..Len(calls) : calls[c].released
    /\ \A h \in 1..Len(handles) : handles[h].st # "live"

\* C1: with a caller that follows the contract, no allocation made by
\* sudachi_init or sudachi_tokenize (handle box, array storage, token record,
\* string) is ever released twice, and once the caller has made its last
\* release call every one of them has been released, exactly once.
C1_ReleasedExactlyOnce ==
    /\ \A h \in 1..Len(handles) : handles[h].st # "double"
    /\ \A a \in 1..Len(arrays) : arrays[a].st # "double"
    /\ \A t \in 1..Len(tokens) : tokens[t].st # "double"
    /\ \A p \in 1..Len(strings) : strings[p].st # "double"
    /\ AllReleasedByCaller =>
         /\ \A h \in 1..Len(handles) : handles[h].st = "freed"
         /\ \A a \in 1..Len(arrays) : arrays[a].st = "freed"
         /\ \A t \in 1..Len(tokens) : tokens[t].st = "freed"
         /\ \A p \in 1..Len(strings) : strings[p].st = "freed"

\* a handle and two results, one of them with a record taken out, all released
C1_Witness ==
    /\ AllReleasedByCaller
    /\ Len(handles) = 1
    /\ Len(arrays) = 2
    /\ Len(tokens) >= 3
    /\ \E a \in 1..Len(arrays) : arrays[a].slots[1] = NULL

\* C2: a sudachi_tokenize call with a null handle, text or out_count returns
\* null, allocates nothing, does not write the caller's count and leaves the
\* handle and every earlier result as they were.
C2_NullArgsNoEffect ==
    [][ (last'.op = "tokenize"
         /\ (last'.arg = NULL \/ last'.text = NULL \/ last'.out = NULL))
        => (/\ last'.ret = NULL
            /\ UNCHANGED <<handles, engines, openFiles, maps, arrays, tokens,
                           strings, outCell, calls>>) ]_vars

\* a call with a null text and a non-null out_count, made while a handle and
\* a result are live and the caller's count is not zero
C2_Witness ==
    /\ last.op = "tokenize"
    /\ last.arg # NULL /\ last.text = NULL /\ last.out # NULL
    /\ last.ret = NULL
    /\ outCell > 0
    /\ \E a \in 1..Len(arrays) : arrays[a].st = "live"

\* C3: whenever sudachi_tokenize is given a live handle, a text and an
\* out_count and returns null, the caller's count is 0 after the call.
C3_FailureZeroesCount ==
    (/\ last.op = "tokenize"
     /\ last.arg # NULL /\ last.text # NULL /\ last.out # NULL
     /\ last.ret = NULL)
    => outCell = 0

\* every step of sudachi_init succeeds for the path at dict_path
InitCanSucceed(dict_path) ==
    /\ dict_path # NULL
    /\ ToStr(PathMem[dict_path]).ok
    /\ FileOpen(PathMem[dict_path])
    /\ MmapMap(PathMem[dict_path])
    /\ FromCfgStorage(PathMem[dict_path]).ok

\* C4: sudachi_init returns a handle exactly when the path is non-null and
\* decodable, the file opens, maps and makes an engine; the handle it returns
\* is complete; on every other path it returns null, and no handle, engine
\* reference, open file or mapping made by the call is left.
C4_InitAllOrNothing ==
    [][ last'.op = "init" =>
        /\ (last'.ret # NULL) <=> InitCanSucceed(last'.arg)
        /\ last'.ret # NULL =>
             /\ Len(handles') = Len(handles) + 1
             /\ last'.ret = Len(handles')
             /\ handles'[last'.ret].st = "live"
             /\ engines'[handles'[last'.ret].dictionary].strong = 2
             /\ engines'[handles'[last'.ret].tokenizer].mapped
             /\ openFiles' = openFiles
             /\ maps' = maps + 1
        /\ last'.ret = NULL =>
             UNCHANGED <<handles, engines, openFiles, maps>> ]_vars

\* sudachi_init has failed at the last step, engine construction
C4_Witness ==
    /\ last.op = "init"
    /\ last.arg # NULL
    /\ MmapMap(PathMem[last.arg])
    /\ ~FromCfgStorage(PathMem[last.arg]).ok
    /\ last.ret = NULL
    /\ maps = 0 /\ openFiles = 0 /\ handles = <<>> /\ engines = <<>>

\* the records call c returned, as the caller read them
ViewOf(c) == ResultView(tokens, strings, calls[c].records)

\* the morphemes the engine returned for the most recent call
LastMorphemes ==
    EngineTokenize(engines[handles[last.arg].tokenizer].dict,
                   ToStr(TextMem[last.text]).str,
                   <<"A", "B", "C">>[last.mode + 1]).morphemes

\* those of them whose surface holds no zero byte, in the engine's order
Representable(morphemes) ==
    SelectSeq(morphemes, LAMBDA mo : \A i \in 1..Len(mo.surface) : mo.surface[i] # NUL)

\* C5: after a successful sudachi_tokenize the caller's count is the number of
\* engine morphemes whose surface holds no zero byte, and the array holds one
\* record for each of them, in the engine's order.
C5_CountAndOrder ==
    (last.op = "tokenize" /\ last.ret # NULL) =>
        LET kept == Representable(LastMorphemes)
            view == ViewOf(Len(calls))
        IN  /\ outCell = Len(kept)
            /\ calls[Len(calls)].count = Len(kept)
            /\ last.ret # Dangling => Len(arrays[last.ret].slots) = Len(kept)
            /\ Len(view) = Len(kept)
            /\ \A i \in 1..Len(kept) :
                 /\ ~view[i].surface.absent
                 /\ view[i].surface.text = kept[i].surface

\* a call whose engine output had a morpheme dropped between two kept ones
C5_Witness ==
    /\ last.op = "tokenize"
    /\ last.ret # NULL
    /\ Len(LastMorphemes) = 3
    /\ outCell = 2

\* C6: sudachi_free_token(NULL), sudachi_free_tokens(NULL, count) and
\* sudachi_free_tokenizer(NULL) release nothing and change nothing.
C6_NullReleaseNoOp ==
    [][ (last'.op \in {"free_token", "free_tokens", "free_tokenizer"}
         /\ last'.arg = NULL)
        => (/\ last'.log = <<>>
            /\ UNCHANGED <<handles, engines, openFiles, maps, arrays, tokens,
                           strings, outCell, calls>>) ]_vars

\* sudachi_free_tokens(NULL, 2) called while a handle and a result are live
C6_Witness ==
    /\ last.op = "free_tokens"
    /\ last.arg = NULL
    /\ last.count = 2
    /\ LiveHandles # {}
    /\ \E a \in 1..Len(arrays) : arrays[a].st = "live"

\* the non-null string pointers of record t
StringsOf(t) ==
    {tokens[t].surface, tokens[t].reading, tokens[t].dictionary_form,
     tokens[t].normalized_form, tokens[t].pos} \ {NULL}

\* the non-null elements among the first count slots of array a
RecordsOf(a, count) ==
    {arrays[a].slots[i] : i \in 1..count} \ {NULL}

\* C7: sudachi_free_tokens(array, count) on a non-null array releases the
\* non-null records among the first count elements, each once and with each
\* of its non-null strings, nothing for a null element or a null field, and
\* the array's backing storage last; with count 0 it releases no record and
\* no string.
C7_FreeTokensReleases ==
    (last.op = "free_tokens" /\ last.arg # NULL) =>
        IF last.count = 0 THEN last.log = <<>>
        ELSE
        LET recs == RecordsOf(last.arg, last.count)
            expected == {<<"token", t>> : t \in recs}
                        \cup UNION {{<<"string", p>> : p \in StringsOf(t)} : t \in recs}
                        \cup {<<"array", last.arg>>}
        IN  /\ Range(last.log) = expected
            /\ Len(last.log) = Cardinality(expected)
            /\ last.log[Len(last.log)] = <<"array", last.arg>>
            /\ arrays[last.arg].st = "freed"
            /\ \A t \in recs :
                 /\ tokens[t].st = "freed"
                 /\ \A p \in StringsOf(t) : strings[p].st = "freed"

\* an array released while it held a null element and a record with a null
\* string field
C7_Witness ==
    /\ last.op = "free_tokens"
    /\ last.arg \notin {NULL, Dangling}
    /\ \E i \in 1..last.count : arrays[last.arg].slots[i] = NULL
    /\ \E t \in RecordsOf(last.arg, last.count) : tokens[t].normalized_form = NULL

\* C8: sudachi_tokenize leaves the handle and its engine as they were, and a
\* call that repeats the handle, text and mode of an earlier call whose
\* result has been released returns the same count and field-equal records.
C8_RetokenizeEqual ==
    [][ last'.op = "tokenize" =>
        /\ UNCHANGED <<handles, engines>>
        /\ last'.ret # NULL =>
             LET new == calls'[Len(calls')]
             IN  \A c \in new.after :
                    (calls[c].h = new.h /\ calls[c].text = new.text
                     /\ calls[c].mode = new.mode)
                    => (/\ new.count = calls[c].count
                        /\ ResultView(tokens', strings', new.records) = ViewOf(c)) ]_vars

\* a text tokenized, its result released, and tokenized again the same way
C8_Witness ==
    \E d \in 1..Len(calls) : \E c \in calls[d].after :
        /\ calls[c].h = calls[d].h
        /\ calls[c].text = calls[d].text
        /\ calls[c].mode = calls[d].mode
        /\ calls[d].count >= 1
        /\ ViewOf(d) = ViewOf(c)

\* begin <= end for each morpheme, begin and end non-decreasing along the list
EngineOrdered(morphemes) ==
    /\ \A i \in 1..Len(morphemes) : OffLeq(morphemes[i].begin, morphemes[i].end)
    /\ \A i \in 1..(Len(morphemes) - 1) :
         /\ OffLeq(morphemes[i].begin, morphemes[i + 1].begin)
         /\ OffLeq(morphemes[i].end, morphemes[i + 1].end)

RecordsOrdered(view) ==
    /\ \A i \in 1..Len(view) : view[i].begin <= view[i].end
    /\ \A i \in 1..(Len(view) - 1) :
         /\ view[i].begin <= view[i + 1].begin
         /\ view[i].end <= view[i + 1].end

\* C9: when the engine's offsets are ordered (begin <= end, non-decreasing),
\* whatever their size, the records sudachi_tokenize emits are ordered too.
C9_OffsetsStayOrdered ==
    (last.op = "tokenize" /\ last.ret # NULL /\ EngineOrdered(LastMorphemes))
    => RecordsOrdered(ViewOf(Len(calls)))

\* C10: the mode mapping sends A, B and C to the internal mode of the same
\* name, sends different modes to different internal modes, and every call
\* that gets as far as the engine has an internal mode.
C10_ModeBijection ==
    /\ \A c \in 1..Len(calls) : calls[c].imode = <<"A", "B", "C">>[calls[c].mode + 1]
    /\ \A c, d \in 1..Len(calls) :
         calls[c].mode # calls[d].mode => calls[c].imode # calls[d].imode
    /\ (/\ last.op = "tokenize"
        /\ last.arg # NULL /\ last.text # NULL /\ last.out # NULL
        /\ ToStr(TextMem[last.text]).ok)
       => last.imode \in Mode

\* the same text tokenized in mode B and in mode C
C10_Witness ==
    \E c, d \in 1..Len(calls) :
        /\ calls[c].mode = 1 /\ calls[c].imode = "B"
        /\ calls[d].mode = 2 /\ calls[d].imode = "C"
        /\ calls[c].text = calls[d].text

\* the field holds a zero byte, so CString::new fails on it
HasNul(field) == NUL \in Range(field)

\* C12: in every record sudachi_tokenize emits the surface is non-null; the
\* reading, dictionary form, normalized form and part-of-speech list are null
\* exactly when their own conversion failed, and hold the engine's value
\* otherwise; a failure in one of them neither drops the record nor changes
\* another field, so no record has all five strings absent.
C12_FieldsFailAlone ==
    (last.op = "tokenize" /\ last.ret # NULL) =>
        LET kept == Representable(LastMorphemes)
            view == ViewOf(Len(calls))
        IN  /\ Len(view) = Len(kept)
            /\ \A i \in 1..Len(kept) :
                 /\ ~view[i].surface.absent
                 /\ view[i].surface.text = kept[i].surface
                 /\ view[i].reading.absent <=> HasNul(kept[i].reading_form)
                 /\ ~view[i].reading.absent =>
                      view[i].reading.text = kept[i].reading_form
                 /\ view[i].dictionary_form.absent <=> HasNul(kept[i].dictionary_form)
                 /\ ~view[i].dictionary_form.absent =>
                      view[i].dictionary_form.text = kept[i].dictionary_form
                 /\ view[i].normalized_form.absent <=> HasNul(kept[i].normalized_form)
                 /\ ~view[i].normalized_form.absent =>
                      view[i].normalized_form.text = kept[i].normalized_form
                 /\ view[i].pos.absent <=> HasNul(JsonArray(kept[i].part_of_speech))
                 /\ ~view[i].pos.absent =>
                      view[i].pos.text = JsonArray(kept[i].part_of_speech)
            /\ \A i \in 1..Len(view) :
                 ~(/\ view[i].surface.absent /\ view[i].reading.absent
                   /\ view[i].dictionary_form.absent /\ view[i].normalized_form.absent
                   /\ view[i].pos.absent)

\* a result with one record whose reading alone is null and one whose
\* dictionary and normalized forms are null while its reading is not
C12_Witness ==
    /\ last.op = "tokenize"
    /\ last.ret # NULL
    /\ LET view == ViewOf(Len(calls)) IN
       /\ Len(view) = 2
       /\ view[1].reading.absent /\ ~view[1].dictionary_form.absent
       /\ ~view[2].reading.absent /\ view[2].dictionary_form.absent
       /\ view[2].normalized_form.absent /\ ~view[2].pos.absent

\* C13: sudachi_tokenize leaves no orphan allocation: every array, record and
\* string there is was made by a call that succeeded and is reachable from
\* the array that call returned, so a call that returns null and a morpheme
\* that is dropped leave nothing behind.
C13_NoOrphanAllocation ==
    /\ \A a \in 1..Len(arrays) : \E c \in 1..Len(calls) : calls[c].ptr = a
    /\ \A t \in 1..Len(tokens) : \E c \in 1..Len(calls) : t \in Range(calls[c].records)
    /\ \A p \in 1..Len(strings) : \E t \in 1..Len(tokens) : p \in StringsOf(t)
    /\ \A c \in 1..Len(calls) :
         /\ Len(calls[c].records) = calls[c].count
         /\ calls[c].ptr = Dangling <=> calls[c].count = 0

\* the engine has rejected a text after an earlier call dropped the middle
\* one of three morphemes
C13_Witness ==
    /\ last.op = "tokenize"
    /\ last.arg # NULL /\ last.text = 7 /\ last.ret = NULL
    /\ \E c \in 1..Len(calls) : calls[c].text = 4 /\ calls[c].count = 2
    /\ Len(tokens) = 2
    /\ Len(strings) = 10

\* C14: releasing a handle leaves every array returned on it, with its
\* records and strings, live and as it was; sudachi_free_tokens called after
\* the handle is gone releases exactly that array's allocations, each once,
\* and leaves the released handle, its engine and the mappings alone.
C14_ResultsOutliveHandle ==
    [][ /\ (last'.op = "free_tokenizer" /\ last'.arg # NULL) =>
             /\ handles'[last'.arg].st = "freed"
             /\ UNCHANGED <<arrays, tokens, strings, calls>>
             /\ \A c \in 1..Len(calls') :
                  (~calls'[c].released /\ calls'[c].ptr # Dangling) =>
                     /\ arrays'[calls'[c].ptr].st = "live"
                     /\ \A i \in 1..calls'[c].count :
                          LET t == arrays'[calls'[c].ptr].slots[i] IN
                          t # NULL =>
                            /\ tokens'[t].st = "live"
                            /\ \A f \in {tokens'[t].surface, tokens'[t].reading,
                                           tokens'[t].dictionary_form,
                                           tokens'[t].normalized_form,
                                           tokens'[t].pos} \ {NULL} :
                                 strings'[f].st = "live"
        /\ (last'.op = "free_tokens" /\ last'.arg # NULL /\ LiveHandles = {}) =>
             /\ UNCHANGED <<handles, engines, openFiles, maps>>
             /\ LET recs == IF last'.arg = Dangling THEN {}
                            ELSE RecordsOf(last'.arg, last'.count)
                    owned == {<<"token", t>> : t \in recs}
                             \cup UNION {{<<"string", p>> : p \in StringsOf(t)} : t \in recs}
                             \cup (IF last'.arg = Dangling THEN {}
                                   ELSE {<<"array", last'.arg>>})
                IN  /\ Range(last'.log) = owned
                    /\ Len(last'.log) = Cardinality(owned)
                    /\ \A a \in 1..Len(arrays) :
                         arrays'[a] # arrays[a] =>
                            (a = last'.arg /\ arrays'[a].st = "freed")
                    /\ \A t \in 1..Len(tokens) :
                         tokens'[t] # tokens[t] => (t \in recs /\ tokens'[t].st = "freed")
                    /\ \A p \in 1..Len(strings) :
                         strings'[p] # strings[p] =>
                            /\ strings'[p].st = "freed"
                            /\ \E t \in recs : p \in StringsOf(t) ]_vars

\* the handle was released while two results were live; one of them, with
\* two records, has then been released and the other is still live
C14_Witness ==
    /\ last.op = "free_tokens"
    /\ last.arg \notin {NULL, Dangling}
    /\ last.count = 2
    /\ Len(handles) = 1 /\ handles[1].st = "freed"
    /\ engines[1].strong = 0
    /\ Len(last.log) >= 3
    /\ \E c \in 1..Len(calls) :
         /\ ~calls[c].released
         /\ calls[c].ptr # Dangling
         /\ arrays[calls[c].ptr].st = "live"

\* C15: the two engine references sudachi_init makes belong to the handle:
\* while the handle is live its engine has exactly two owners and its storage
\* is mapped, before and after every sudachi_tokenize call; once
\* sudachi_free_tokenizer has released the handle the engine has no owner and
\* its mapping is gone.
C15_EngineOwnedByHandle ==
    /\ Len(engines) = Len(handles)
    /\ \A h \in 1..Len(handles) :
         LET e == handles[h].dictionary IN
         /\ handles[h].tokenizer = e
         /\ \A g \in 1..Len(handles) : handles[g].dictionary = e => g = h
         /\ handles[h].st = "live" => (engines[e].strong = 2 /\ engines[e].mapped)
         /\ handles[h].st = "freed" => (engines[e].strong = 0 /\ ~engines[e].mapped)
    /\ maps = Cardinality(LiveHandles)
    /\ openFiles = 0

\* a handle released after two sudachi_tokenize calls on it
C15_Witness ==
    /\ last.op = "free_tokenizer"
    /\ last.arg # NULL
    /\ handles[last.arg].st = "freed"
    /\ engines[handles[last.arg].dictionary].strong = 0
    /\ ~engines[handles[last.arg].dictionary].mapped
    /\ maps = 0
    /\ Len(calls) = 2

\* the most recent sudachi_tokenize call had a null argument, a text that does
\* not decode, or a text the engine rejects
LastCallFails ==
    \/ last.arg = NULL \/ last.text = NULL \/ last.out = NULL
    \/ ~ToStr(TextMem[last.text]).ok
    \/ ~EngineTokenize(engines[handles[last.arg].tokenizer].dict,
                       ToStr(TextMem[last.text]).str,
                       <<"A", "B", "C">>[last.mode + 1]).ok

\* C16: sudachi_tokenize returns null exactly when the call fails; a call that
\* succeeds with no record to emit (empty text, or every morpheme dropped)
\* returns a non-null pointer and sets the caller's count to 0, and
\* sudachi_free_tokens on that pointer with count 0 releases nothing and
\* releases nothing twice.
C16_NullMeansFailure ==
    /\ last.op = "tokenize" => (last.ret = NULL <=> LastCallFails)
    /\ (last.op = "tokenize" /\ ~LastCallFails
          /\ Representable(LastMorphemes) = <<>>) =>
         /\ last.ret = Dangling
         /\ outCell = 0
         /\ calls[Len(calls)].ptr = last.ret
         /\ calls[Len(calls)].count = 0
    /\ (last.op = "free_tokens" /\ last.arg # NULL /\ last.count = 0) =>
         /\ last.log = <<>>
         /\ \A a \in 1..Len(arrays) : arrays[a].st # "double"
         /\ \A t \in 1..Len(tokens) : tokens[t].st # "double"
         /\ \A p \in 1..Len(strings) : strings[p].st # "double"

\* the result of a call that dropped its only morpheme has been released
\* with count 0 while an earlier result with records is live
C16_Witness ==
    /\ last.op = "free_tokens"
    /\ last.arg = Dangling
    /\ last.count = 0
    /\ \E c \in 1..Len(calls) :
         /\ calls[c].released
         /\ calls[c].text = 4 /\ calls[c].mode = 2
         /\ calls[c].ptr = Dangling
    /\ \E a \in 1..Len(arrays) : arrays[a].st = "live"

\* the result the call of thread t returns when it runs with nothing else
\* going on, on an empty heap
Alone(t) ==
    sudachi_tokenize([arrays |-> <<>>, tokens |-> <<>>, strings |-> <<>>, log |-> <<>>],
                     Sys, 0, threads[t].h, threads[t].text, threads[t].mode, 1)

\* the records and strings thread t has allocated so far
ThreadRecords(t) == Range(threads[t].acc)
ThreadStrings(t) == UNION {StringsOf(r) : r \in ThreadRecords(t)}

\* C11: sudachi_tokenize calls that run concurrently on one live handle do not
\* interfere: whatever the interleaving, each call returns the count and the
\* field-equal records it returns when run alone, no array, record or string
\* belongs to two calls, the handle and its engine are never changed, and
\* when no call is in progress the engine has its two owners again.
C11_ConcurrentCallsIndependent ==
    /\ \A t \in 1..MaxCalls : threads[t].pc = "done" =>
         LET a == Alone(t) IN
         /\ threads[t].ret = NULL <=> a.ret = NULL
         /\ threads[t].ret = Dangling <=> a.ret = Dangling
         /\ threads[t].cell = a.cell
         /\ ResultView(tokens, strings, Slice(Mem, threads[t].ret, threads[t].cell))
              = ResultView(a.m.tokens, a.m.strings, Slice(a.m, a.ret, a.cell))
    /\ \A t, u \in 1..MaxCalls : t # u =>
         /\ ThreadRecords(t) \cap ThreadRecords(u) = {}
         /\ ThreadStrings(t) \cap ThreadStrings(u) = {}
         /\ (threads[t].pc = "done" /\ threads[u].pc = "done"
              /\ threads[t].ret \notin {NULL, Dangling})
             => threads[t].ret # threads[u].ret
    /\ \A t \in 1..MaxCalls : threads[t].pc # "idle" =>
         LET e == handles[threads[t].h].tokenizer IN
         /\ threads[t].seen = <<handles[threads[t].h], engines[e].dict, engines[e].mapped>>
         /\ handles[threads[t].h].st = "live"
         /\ engines[e].mapped
         /\ engines[e].strong = 2 + Cardinality({u \in 1..MaxCalls :
                                      /\ threads[u].pc = "convert"
                                      /\ threads[u].h = threads[t].h})

\* two calls have returned, the records of one of them allocated around a
\* record of the other, and the engine has two owners
C11_Witness ==
    /\ \A t \in 1..MaxCalls : threads[t].pc = "done"
    /\ \E t, u \in 1..MaxCalls :
         /\ t # u
         /\ threads[t].cell = 2 /\ threads[u].cell = 2
         /\ \E r \in ThreadRecords(u) :
              /\ \E x \in ThreadRecords(t) : x < r
              /\ \E y \in ThreadRecords(t) : y > r
    /\ engines[1].strong = 2

====
